---- MODULE Spec2Model ----
(***************************************************************************)
(* The server actions of src/app/generate/actions.ts: the video metadata   *)
(* fetcher, the subtitle parser, the two language-model generators and the *)
(* deck renderer.  Every function is an async function with exactly one    *)
(* await; an invocation is modelled as the synchronous code up to the      *)
(* await (a Call action, which issues the external operation) followed by  *)
(* the code after it (a Settle action, which receives the outcome of the   *)
(* external operation and returns or throws).                              *)
(***************************************************************************)
EXTENDS Integers, Sequences, FiniteSets, TLC

VARIABLES fn, pc, args, locals, request, issued, response, result, error, pptx,
          written

vars ==
    <<fn, pc, args, locals, request, issued, response, result, error, pptx,
      written>>

(***************************************************************************)
(* Bounds of the model.                                                    *)
(***************************************************************************)
MaxSubs == 2
MaxNodes == 3
MaxSlides == 2
MaxUserLen == 5
MaxK == 2

(***************************************************************************)
(* JavaScript values.  Every value is a record tagged by its type, so that *)
(* undefined, null, the empty string and a missing field stay distinct.    *)
(***************************************************************************)
Undefined == [t |-> "undefined"]
Null == [t |-> "null"]
Num(n) == [t |-> "number", n |-> n]
Str(s) == [t |-> "string", s |-> s]
NoValue == [t |-> "none"]
NoError == "none"

\* JavaScript truthiness, as used by `||` and `!`.
Falsy(v) == \/ v = Undefined
            \/ v = Null
            \/ v = Str("")
            \/ v = Num(0)

\* a || b
Or(a, b) == IF Falsy(a) THEN b ELSE a

(***************************************************************************)
(* The generic error of each function, and the error JavaScript raises on  *)
(* a property access or call on undefined/null.                            *)
(***************************************************************************)
TypeError == "TypeError"
ErrParse == "Failed to parse XML content"
ErrVideo == "Failed to get video length and subtitles"
ErrTitle == "Failed to generate title and description"
ErrConvert == "Failed to convert text to objects"
ErrPowerpoint == "Failed to create Powerpoint presentation"

FnParse == "parseXMLContent"
FnVideo == "GetVideoLengthAndSubtitles"
FnTitle == "CreateTitleAndDescription"
FnConvert == "ConvertToObjects"
FnPowerpoint == "CreatePowerpointFromArrayOfObjects"

\* What an invocation ends in: a returned value or a thrown error.
Return(v) == [pc |-> "returned", result |-> v, error |-> NoError]
Throw(e) == [pc |-> "thrown", result |-> NoValue, error |-> e]

\* Outcomes of an external operation.
Failed == [kind |-> "failed"]
NoResponse == [kind |-> "none"]
NoRequest == [op |-> "none"]
NoLocals == [none |-> TRUE]

(***************************************************************************)
(* GetVideoLengthAndSubtitles                                              *)
(***************************************************************************)
LanguageCodes == {"en", "fr"}
Urls == {Undefined, Str(""), Str("https://sub/1"), Str("https://sub/2")}
SubtitleEntries == [languageCode : LanguageCodes, url : Urls]
Lengths == {Undefined, Null, Num(0), Num(212)}

SeqsUpTo(S, n) == UNION {[1..k -> S] : k \in 0..n}

\* The JSON body of a video-info response: res.data.  `subtitles` is the
\* inner list res.data.subtitles.subtitles, or Undefined when the response
\* lacks it.
VideoBodies ==
    [lengthSeconds : Lengths,
     subtitles : {Undefined} \cup
                 {[t |-> "array", a |-> s] : s \in SeqsUpTo(SubtitleEntries, MaxSubs)}]

VideoResponses == {Failed} \cup {[kind |-> "ok", data |-> d] : d \in VideoBodies}

\* Mutant of FindEnglish: the first entry, whatever its language.
FindEnglish_First(list) == IF list = <<>> THEN Undefined ELSE list[1]

\* Array.prototype.find with the predicate languageCode === 'en'.
FindEnglish(list) ==
    LET hits == {i \in 1..Len(list) : list[i].languageCode = "en"}
    IN  IF hits = {} THEN Undefined
        ELSE list[CHOOSE i \in hits : \A j \in hits : i <= j]

\* e?.url
OptionalUrl(e) == IF e = Undefined \/ e = Null THEN Undefined ELSE e.url

\* The object literal returned at lines 82-86.
VideoMetaData(data) ==
    [t |-> "object",
     length |-> data.lengthSeconds,
     subtitlesURL |-> Or(OptionalUrl(FindEnglish(data.subtitles.a)), Null)]

\* The body of the try block after the await, lines 80-86.
VideoTry(resp) ==
    IF resp = Failed THEN Throw("AxiosError")
    ELSE IF resp.data.subtitles = Undefined THEN Throw(TypeError)
    ELSE Return(VideoMetaData(resp.data))

\* The catch block, lines 87-90: every error becomes the generic one.
VideoCatch(r) == IF r.pc = "thrown" THEN Throw(ErrVideo) ELSE r

VideoIds == {"v1", "v2"}

CallVideo ==
    /\ pc = "idle"
    /\ \E id \in VideoIds :
        /\ fn' = FnVideo
        /\ args' = [videoId |-> id]
        /\ request' = [op |-> "http", method |-> "GET",
                       url |-> "https://yt-api.p.rapidapi.com/video/info",
                       id |-> id]
    /\ locals' = NoLocals
    /\ pc' = "awaiting"
    /\ issued' = 1
    /\ response' = NoResponse
    /\ result' = NoValue
    /\ error' = NoError
    /\ pptx' = <<>>
    /\ written' = <<>>

SettleVideo ==
    /\ pc = "awaiting"
    /\ fn = FnVideo
    /\ \E resp \in VideoResponses :
        LET r == VideoCatch(VideoTry(resp))
        IN  /\ response' = resp
            /\ pc' = r.pc
            /\ result' = r.result
            /\ error' = r.error
    /\ UNCHANGED <<fn, args, locals, request, issued, pptx, written>>

(***************************************************************************)
(* parseXMLContent                                                         *)
(***************************************************************************)
TagNames == {"text", "p"}
\* Element.textContent is typed string | null.
TextContents == {Null, Str(""), Str("Hello"), Str("world")}
\* A parsed document: its elements in document order.
XmlElements == [tagName : TagNames, textContent : TextContents]
XmlDocuments == SeqsUpTo(XmlElements, MaxNodes)

\* The download fails, or the body is rejected by the XML parser, or the
\* body parses to a document.
XmlResponses ==
    {Failed, [kind |-> "malformed"]} \cup
    {[kind |-> "ok", doc |-> d] : d \in XmlDocuments}

\* doc.getElementsByTagName(name): the matching elements in document order.
RECURSIVE getElementsByTagName(_, _)
getElementsByTagName(doc, name) ==
    IF doc = <<>> THEN <<>>
    ELSE IF Head(doc).tagName = name
         THEN <<Head(doc)>> \o getElementsByTagName(Tail(doc), name)
         ELSE getElementsByTagName(Tail(doc), name)

\* Mutant of SubtitleItem: without the `|| ""`.
SubtitleItem_NoDefault(element) == [text |-> element.textContent]

\* The callback of map, lines 57-59.
SubtitleItem(element) == [text |-> Or(element.textContent, Str(""))]

\* Array.from(textElements).map(...)
MapSubtitleItems(elements) ==
    [i \in 1..Len(elements) |-> SubtitleItem(elements[i])]

\* The body of the try block after the await, lines 52-59.
ParseTry(resp) ==
    IF resp = Failed THEN Throw("AxiosError")
    ELSE IF resp.kind = "malformed" THEN Throw("ParseError")
    ELSE Return([t |-> "array",
                 a |-> MapSubtitleItems(getElementsByTagName(resp.doc, "text"))])

\* Mutant of ParseCatch: recovers locally by returning null.
ParseCatch_ReturnNull(r) == IF r.pc = "thrown" THEN Return(Null) ELSE r

\* The catch block, lines 60-63.
ParseCatch(r) == IF r.pc = "thrown" THEN Throw(ErrParse) ELSE r

SubtitleUrls == {"https://sub/1", "https://sub/2"}

CallParse ==
    /\ pc = "idle"
    /\ \E u \in SubtitleUrls :
        /\ fn' = FnParse
        /\ args' = [url |-> u]
        /\ request' = [op |-> "http", method |-> "GET", url |-> u]
    /\ locals' = NoLocals
    /\ pc' = "awaiting"
    /\ issued' = 1
    /\ response' = NoResponse
    /\ result' = NoValue
    /\ error' = NoError
    /\ pptx' = <<>>
    /\ written' = <<>>

SettleParse ==
    /\ pc = "awaiting"
    /\ fn = FnParse
    /\ \E resp \in XmlResponses :
        LET r == ParseCatch(ParseTry(resp))
        IN  /\ response' = resp
            /\ pc' = r.pc
            /\ result' = r.result
            /\ error' = r.error
    /\ UNCHANGED <<fn, args, locals, request, issued, pptx, written>>

(***************************************************************************)
(* The language-model completions shared by the two generators.            *)
(***************************************************************************)
\* A completion's choices, given the possible messages of its first choice:
\* no choice at all, one choice, or a first choice followed by another.
ChoiceLists(messages) ==
    {<<>>} \cup
    {<<[message |-> m]>> : m \in messages} \cup
    {<<[message |-> m], [message |-> Undefined]>> : m \in messages}

\* The first choice's message is missing, or carries `parsed`: undefined,
\* null or a payload of the requested schema.
Messages(payloads) ==
    {Undefined} \cup
    {[t |-> "object", parsed |-> p] : p \in {Undefined, Null} \cup payloads}

Completions(payloads) ==
    {Failed} \cup
    {[kind |-> "ok", choices |-> c] : c \in ChoiceLists(Messages(payloads))}

\* message?.parsed
OptionalParsed(m) == IF m = Undefined \/ m = Null THEN Undefined ELSE m.parsed

Transcripts == {"", "hello world"}

(***************************************************************************)
(* CreateTitleAndDescription                                               *)
(***************************************************************************)
\* TitleAndDescriptionSchema
TitleDescriptions ==
    {[t |-> "object", title |-> ti, description |-> d] :
        ti \in {Str("T1"), Str("T2")}, d \in {Str("D1"), Str("")}}

\* The template literal of lines 94-103, as its literal part and the
\* interpolated transcript.
TitlePrompt(transcript) ==
    <<"Generate a title and description for this Powerpoint presentation based on the following transcript. Transcript: ",
      transcript>>

\* Mutant of TitleTry: without the `if(!res)` check.
TitleTry_NoCheck(resp) ==
    IF resp = Failed THEN Throw("APIConnectionError")
    ELSE IF resp.choices = <<>> THEN Throw(TypeError)
    ELSE Return(OptionalParsed(resp.choices[1].message))

\* The body of the try block after the await, lines 121-127.
TitleTry(resp) ==
    IF resp = Failed THEN Throw("APIConnectionError")
    ELSE IF resp.choices = <<>> THEN Throw(TypeError)
    ELSE LET res == OptionalParsed(resp.choices[1].message)
         IN  IF Falsy(res) THEN Throw(ErrTitle) ELSE Return(res)

\* The catch block, lines 128-131.
TitleCatch(r) == IF r.pc = "thrown" THEN Throw(ErrTitle) ELSE r

CallTitle ==
    /\ pc = "idle"
    /\ \E tr \in Transcripts :
        /\ fn' = FnTitle
        /\ args' = [transcript |-> tr]
        /\ request' = [op |-> "completion", model |-> "gpt-4o-mini",
                       schema |-> "title", prompt |-> TitlePrompt(tr)]
    /\ locals' = NoLocals
    /\ pc' = "awaiting"
    /\ issued' = 1
    /\ response' = NoResponse
    /\ result' = NoValue
    /\ error' = NoError
    /\ pptx' = <<>>
    /\ written' = <<>>

SettleTitle ==
    /\ pc = "awaiting"
    /\ fn = FnTitle
    /\ \E resp \in Completions(TitleDescriptions) :
        LET r == TitleCatch(TitleTry(resp))
        IN  /\ response' = resp
            /\ pc' = r.pc
            /\ result' = r.result
            /\ error' = r.error
    /\ UNCHANGED <<fn, args, locals, request, issued, pptx, written>>

(***************************************************************************)
(* ConvertToObjects                                                        *)
(***************************************************************************)
SlideTitles == {Str("S1"), Str("S2")}
BulletLists ==
    {<<>>, <<Str("b1")>>, <<Str("b1"), Str("b2")>>,
     <<Str("b2"), Str("b1"), Str("b1")>>}
\* The entries of arrayOfObjectsSchema.
SlideContents ==
    {[title |-> ti, content |-> [t |-> "array", a |-> c]] :
        ti \in SlideTitles, c \in BulletLists}

\* arrayOfObjectsSchema
ArrayOfObjectsPayloads ==
    {[t |-> "object", arrayOfObjects |-> [t |-> "array", a |-> s]] :
        s \in SeqsUpTo(SlideContents, MaxSlides)}

\* The default value of the parameter slideCount, line 134.
DefaultSlideCount == 10

\* Mutant of SlideCountParam: the default, whatever the argument.
SlideCountParam_AlwaysDefault(k) == Num(DefaultSlideCount)

\* A parameter with a default takes it when the argument is undefined.
SlideCountParam(k) == IF k = Undefined THEN Num(DefaultSlideCount) ELSE k

\* ${n} in a template literal, for a number n.
NumberToString(v) == ToString(v.n)

\* The template literal of lines 135-141.
ConvertPrompt(text, slideCount) ==
    <<"Condense and tidy up the following text to make it suitable for a Powerpoint presentation. The length of the array should be ",
      NumberToString(slideCount),
      ". The text to process is as follows: ",
      text>>

\* The body of the try block after the await, lines 159-165.
ConvertTry(resp) ==
    IF resp = Failed THEN Throw("APIConnectionError")
    ELSE IF resp.choices = <<>> THEN Throw(TypeError)
    ELSE LET res == OptionalParsed(resp.choices[1].message)
         IN  IF Falsy(res) THEN Throw(ErrConvert)
             ELSE Return(res.arrayOfObjects)

\* Mutant of ConvertCatch: rethrows the error it caught.
ConvertCatch_Rethrow(r) == r

\* The catch block, lines 166-169.
ConvertCatch(r) == IF r.pc = "thrown" THEN Throw(ErrConvert) ELSE r

SlideCounts == {Undefined} \cup {Num(k) : k \in 0..MaxK}

CallConvert ==
    /\ pc = "idle"
    /\ \E tx \in Transcripts, k \in SlideCounts :
        /\ fn' = FnConvert
        /\ args' = [text |-> tx, slideCount |-> k]
        /\ request' = [op |-> "completion", model |-> "gpt-4o-mini",
                       schema |-> "arrayOfObjects",
                       prompt |-> ConvertPrompt(tx, SlideCountParam(k))]
    /\ locals' = NoLocals
    /\ pc' = "awaiting"
    /\ issued' = 1
    /\ response' = NoResponse
    /\ result' = NoValue
    /\ error' = NoError
    /\ pptx' = <<>>
    /\ written' = <<>>

SettleConvert ==
    /\ pc = "awaiting"
    /\ fn = FnConvert
    /\ \E resp \in Completions(ArrayOfObjectsPayloads) :
        LET r == ConvertCatch(ConvertTry(resp))
        IN  /\ response' = resp
            /\ pc' = r.pc
            /\ result' = r.result
            /\ error' = r.error
    /\ UNCHANGED <<fn, args, locals, request, issued, pptx, written>>

(***************************************************************************)
(* CreatePowerpointFromArrayOfObjects                                      *)
(***************************************************************************)
\* Slide.addText(text, options): one text object on the slide.
TextObject(text, fontSize, bullet, yTenths) ==
    [text |-> text, fontSize |-> fontSize, bullet |-> bullet, y |-> yTenths]

\* pptx.addSlide(): a slide without objects.
NewSlide == [background |-> "default", objects |-> <<>>]

\* Lines 179-203.
TitleSlide(td) ==
    [background |-> "#ffffff",
     objects |-> <<TextObject(td.title, 33, FALSE, 40),
                   TextObject(td.description, 18, FALSE, 58)>>]

\* Lines 206-217: the slide of an entry after its heading was added.
HeadingSlide(entry) ==
    [background |-> "default",
     objects |-> <<TextObject(entry.title, 32, FALSE, 5)>>]

\* Mutant of BulletObjects: the loop stops one bullet early.
BulletObjects_DropLast(content) ==
    [i \in 1..(Len(content) - 1) |-> TextObject(content[i], 15, TRUE, 18 + (i - 1) * 10)]

\* Lines 219-231: content.forEach((bullet, index) => slide.addText(...)),
\* the bullet at 0-based index placed at y = 1.8 + index.
BulletObjects(content) ==
    [i \in 1..Len(content) |-> TextObject(content[i], 15, TRUE, 18 + (i - 1) * 10)]

\* Lines 206-231: the slide of one entry.
ContentSlide(entry) ==
    [background |-> "default",
     objects |-> HeadingSlide(entry).objects \o BulletObjects(entry.content.a)]

\* Lines 177-232, which run outside the try block.  `threw` tells whether a
\* TypeError was raised: by titleAndDescription.title on null, by
\* slides.forEach on null, or by content.forEach on an entry without
\* content.  `deck` is the deck built so far.
BuildDeck(td, slides) ==
    IF td = Null \/ td = Undefined
    THEN [threw |-> TRUE, deck |-> <<[NewSlide EXCEPT !.background = "#ffffff"]>>]
    ELSE IF slides = Null \/ slides = Undefined
    THEN [threw |-> TRUE, deck |-> <<TitleSlide(td)>>]
    ELSE LET bad == {i \in 1..Len(slides.a) :
                        slides.a[i].content \in {Null, Undefined}}
         IN  IF bad = {}
             THEN [threw |-> FALSE,
                   deck |-> <<TitleSlide(td)>> \o
                            [i \in 1..Len(slides.a) |-> ContentSlide(slides.a[i])]]
             ELSE LET b == CHOOSE i \in bad : \A j \in bad : i <= j
                  IN  [threw |-> TRUE,
                       deck |-> <<TitleSlide(td)>> \o
                                [i \in 1..(b - 1) |-> ContentSlide(slides.a[i])] \o
                                <<HeadingSlide(slides.a[b])>>]

(***************************************************************************)
(* File names and paths are sequences of characters; a literal part that   *)
(* holds no '/' and no '.' is kept as one element.                         *)
(***************************************************************************)
\* `presentation-${randomUUID()}-userId=${userId}.pptx`, line 235.
FileName(uuid, userId) ==
    <<"presentation-", uuid, "-userId=">> \o userId \o <<".", "pptx">>

TmpDir == <<"/", "tmp">>

\* The segments of a path between its '/' separators.
RECURSIVE Segments(_)
Segments(p) ==
    LET cuts == {i \in 1..Len(p) : p[i] = "/"}
    IN  IF cuts = {} THEN <<p>>
        ELSE LET c == CHOOSE i \in cuts : \A j \in cuts : i <= j
             IN  <<SubSeq(p, 1, c - 1)>> \o Segments(SubSeq(p, c + 1, Len(p)))

\* POSIX path normalisation of an absolute path: empty and '.' segments are
\* dropped, '..' removes the segment before it (and nothing at the root).
RECURSIVE ResolveSegments(_, _)
ResolveSegments(segs, acc) ==
    IF segs = <<>> THEN acc
    ELSE LET sg == Head(segs)
         IN  IF sg = <<>> \/ sg = <<".">>
             THEN ResolveSegments(Tail(segs), acc)
             ELSE IF sg = <<".", ".">>
             THEN ResolveSegments(Tail(segs),
                                  IF acc = <<>> THEN acc
                                  ELSE SubSeq(acc, 1, Len(acc) - 1))
             ELSE ResolveSegments(Tail(segs), Append(acc, sg))

RECURSIVE JoinSegments(_)
JoinSegments(segs) ==
    IF segs = <<>> THEN <<>>
    ELSE <<"/">> \o Head(segs) \o JoinSegments(Tail(segs))

\* path.join(dir, name) for an absolute dir and a name that does not end
\* in '/': the two joined by '/', then normalised.
PathJoin(dir, name) ==
    LET segs == ResolveSegments(Segments(dir \o <<"/">> \o name), <<>>)
    IN  IF segs = <<>> THEN <<"/">> ELSE JoinSegments(segs)

\* The directory a path's last segment lies in.
Dirname(p) ==
    LET segs == ResolveSegments(Segments(p), <<>>)
    IN  IF Len(segs) <= 1 THEN <<"/">>
        ELSE JoinSegments(SubSeq(segs, 1, Len(segs) - 1))

\* The directories of the file system: the root and the temporary directory.
Directories == {<<"/">>, TmpDir}

\* fs.writeFile creates a file only in a directory that exists; it may
\* fail there too.
WriteOutcomes(path) ==
    {Failed} \cup
    (IF Dirname(path) \in Directories THEN {[kind |-> "ok"]} ELSE {})

\* The body of the try block after the await, line 240.
PowerpointTry(resp, l) ==
    IF resp = Failed THEN Throw("ENOENT")
    ELSE Return([t |-> "object", fileName |-> l.fileName, filePath |-> l.filePath])

\* The catch block, lines 241-244.
PowerpointCatch(r) == IF r.pc = "thrown" THEN Throw(ErrPowerpoint) ELSE r

UserChars == {"k", ".", "/"}
Uuids == {"uuid-1", "uuid-2"}

\* The decks the renderer is called with: the entries of a deck may lack
\* their content array, and either argument may be null.
RenderEntries ==
    SlideContents \cup {[title |-> ti, content |-> Undefined] : ti \in SlideTitles}
RenderSlides ==
    {Null} \cup {[t |-> "array", a |-> s] : s \in SeqsUpTo(RenderEntries, MaxSlides)}
RenderTitles == {Null} \cup TitleDescriptions

\* The calls of the renderer: every deck with one plain user identifier,
\* and every user identifier with one small deck.
PowerpointCalls ==
    [titleAndDescription : RenderTitles, slides : RenderSlides,
     userId : {<<"k">>}, uuid : {"uuid-1"}]
    \cup
    [titleAndDescription : {[t |-> "object", title |-> Str("T1"),
                             description |-> Str("D1")]},
     slides : {[t |-> "array", a |-> <<>>]},
     userId : SeqsUpTo(UserChars, MaxUserLen), uuid : Uuids]

CallPowerpoint ==
    /\ pc = "idle"
    /\ \E c \in PowerpointCalls :
        LET built == BuildDeck(c.titleAndDescription, c.slides)
            fileName == FileName(c.uuid, c.userId)
            filePath == PathJoin(TmpDir, fileName)
        IN  /\ fn' = FnPowerpoint
            /\ args' = [titleAndDescription |-> c.titleAndDescription,
                        slides |-> c.slides, userId |-> c.userId]
            /\ pptx' = built.deck
            /\ IF built.threw
               THEN /\ pc' = "thrown"
                    /\ error' = TypeError
                    /\ issued' = 0
                    /\ locals' = NoLocals
                    /\ request' = NoRequest
               ELSE /\ pc' = "awaiting"
                    /\ error' = NoError
                    /\ issued' = 1
                    /\ locals' = [uuid |-> c.uuid, fileName |-> fileName,
                                  filePath |-> filePath]
                    /\ request' = [op |-> "write", fileName |-> filePath]
    /\ response' = NoResponse
    /\ result' = NoValue
    /\ written' = <<>>

SettlePowerpoint ==
    /\ pc = "awaiting"
    /\ fn = FnPowerpoint
    /\ \E resp \in WriteOutcomes(request.fileName) :
        LET r == PowerpointCatch(PowerpointTry(resp, locals))
        IN  /\ response' = resp
            /\ written' = IF resp = Failed THEN <<>>
                          ELSE <<[path |-> request.fileName, deck |-> pptx]>>
            /\ pc' = r.pc
            /\ result' = r.result
            /\ error' = r.error
    /\ UNCHANGED <<fn, args, locals, request, issued, pptx>>

Init ==
    /\ fn = "none"
    /\ pc = "idle"
    /\ args = [none |-> TRUE]
    /\ locals = NoLocals
    /\ request = NoRequest
    /\ issued = 0
    /\ response = NoResponse
    /\ result = NoValue
    /\ error = NoError
    /\ pptx = <<>>
    /\ written = <<>>

\* An invocation has returned or thrown: its frame is gone, and no component
\* holds state between invocations.
Finish ==
    /\ pc \in {"returned", "thrown"}
    /\ fn' = "none"
    /\ pc' = "idle"
    /\ args' = [none |-> TRUE]
    /\ locals' = NoLocals
    /\ request' = NoRequest
    /\ issued' = 0
    /\ response' = NoResponse
    /\ result' = NoValue
    /\ error' = NoError
    /\ pptx' = <<>>
    /\ written' = <<>>

Next ==
    \/ CallVideo
    \/ SettleVideo
    \/ CallParse
    \/ SettleParse
    \/ CallTitle
    \/ SettleTitle
    \/ CallConvert
    \/ SettleConvert
    \/ CallPowerpoint
    \/ SettlePowerpoint
    \/ Finish

Spec == Init /\ [][Next]_vars

(***************************************************************************)
(* Properties.                                                             *)
(***************************************************************************)
Done == pc \in {"returned", "thrown"}

\* The external operation completed and the first choice of the completion
\* carries a parsed payload.
HasParsed ==
    /\ response.kind = "ok"
    /\ response.choices # <<>>
    /\ response.choices[1].message # Undefined
    /\ response.choices[1].message.parsed \notin {Undefined, Null}

\* needle occurs in hay as a contiguous run.
Contains(hay, needle) ==
    \E i \in 0..(Len(hay) - Len(needle)) :
        SubSeq(hay, i + 1, i + Len(needle)) = needle

\* C1: GetVideoLengthAndSubtitles, given a response whose subtitle list holds
\* no entry with languageCode 'en' (the empty list included), returns, with
\* subtitlesURL null and length the response's lengthSeconds.
C1_NoEnglishSubtitle ==
    ( /\ fn = FnVideo
      /\ Done
      /\ response.kind = "ok"
      /\ response.data.subtitles # Undefined
      /\ \A i \in 1..Len(response.data.subtitles.a) :
            response.data.subtitles.a[i].languageCode # "en" )
    => /\ pc = "returned"
       /\ result.subtitlesURL = Null
       /\ result.length = response.data.lengthSeconds

C1_Witness ==
    /\ fn = FnVideo
    /\ pc = "returned"
    /\ response.data.lengthSeconds = Num(212)
    /\ response.data.subtitles # Undefined
    /\ Len(response.data.subtitles.a) = 2
    /\ \A i \in 1..2 :
        /\ response.data.subtitles.a[i].languageCode = "fr"
        /\ response.data.subtitles.a[i].url = Str("https://sub/1")
    /\ result.subtitlesURL = Null

\* The index in doc of its k-th element named 'text'.
TextIndex(doc, k) ==
    CHOOSE i \in 1..Len(doc) :
        /\ doc[i].tagName = "text"
        /\ Cardinality({j \in 1..i : doc[j].tagName = "text"}) = k

\* C2: parseXMLContent, given a downloaded and parsed document with N
\* elements named 'text', returns exactly N fragments, the i-th holding the
\* text content of the i-th 'text' element in document order, or the empty
\* string when that element has none; for N = 0 it returns the empty
\* sequence.
C2_FragmentsInDocumentOrder ==
    (fn = FnParse /\ Done /\ response.kind = "ok")
    => /\ pc = "returned"
       /\ result.t = "array"
       /\ Len(result.a) =
            Cardinality({i \in 1..Len(response.doc) :
                            response.doc[i].tagName = "text"})
       /\ \A k \in 1..Len(result.a) :
            LET tc == response.doc[TextIndex(response.doc, k)].textContent
            IN  result.a[k] =
                    [text |-> IF tc = Null \/ tc = Str("") THEN Str("") ELSE tc]

C2_Witness ==
    /\ fn = FnParse
    /\ pc = "returned"
    /\ response.kind = "ok"
    /\ response.doc = <<[tagName |-> "text", textContent |-> Str("world")],
                        [tagName |-> "p", textContent |-> Str("Hello")],
                        [tagName |-> "text", textContent |-> Null]>>
    /\ result.a = <<[text |-> Str("world")], [text |-> Str("")]>>

\* C3: when CreatePowerpointFromArrayOfObjects writes the deck for M entries
\* it holds M+1 slides: the title slide first, then one slide per entry in
\* input order, the i-th carrying the i-th entry's title and one bullet text
\* block per content string of that entry.
C3_DeckHoldsOneSlidePerEntry ==
    (fn = FnPowerpoint /\ issued = 1)
    => LET entries == args.slides.a
       IN  /\ request.op = "write"
           /\ Len(pptx) = Len(entries) + 1
           /\ Len(pptx[1].objects) = 2
           /\ pptx[1].objects[1].text = args.titleAndDescription.title
           /\ pptx[1].objects[2].text = args.titleAndDescription.description
           /\ \A i \in 1..Len(entries) :
                LET objs == pptx[i + 1].objects
                    content == entries[i].content.a
                IN  /\ Len(objs) = Len(content) + 1
                    /\ objs[1].text = entries[i].title
                    /\ ~ objs[1].bullet
                    /\ \A j \in 1..Len(content) :
                        /\ objs[j + 1].text = content[j]
                        /\ objs[j + 1].bullet
           /\ written # <<>> => written[1].deck = pptx

C3_Witness ==
    /\ fn = FnPowerpoint
    /\ pc = "returned"
    /\ written # <<>>
    /\ Len(args.slides.a) = 2
    /\ args.slides.a[1].title = Str("S2")
    /\ args.slides.a[2].title = Str("S1")
    /\ args.slides.a[1].content.a = <<Str("b2"), Str("b1"), Str("b1")>>
    /\ args.slides.a[2].content.a = <<>>
    /\ Len(written[1].deck) = 3

\* C4: a successful call of CreatePowerpointFromArrayOfObjects with user
\* identifier U and random identifier R returns fileName = 'presentation-' R
\* '-userId=' U '.pptx' and filePath = that fileName inside '/tmp', the file
\* was written to that filePath, and fileName and filePath both contain U.
C4_FileNameAndPath ==
    (fn = FnPowerpoint /\ pc = "returned")
    => /\ result.fileName =
            <<"presentation-", locals.uuid, "-userId=">> \o args.userId \o
            <<".", "pptx">>
       /\ result.filePath = TmpDir \o <<"/">> \o result.fileName
       /\ Len(written) = 1
       /\ written[1].path = result.filePath
       /\ Contains(result.fileName, args.userId)
       /\ Contains(result.filePath, args.userId)

\* C5: a transport failure of the network call of GetVideoLengthAndSubtitles,
\* parseXMLContent, CreateTitleAndDescription or ConvertToObjects reaches the
\* caller as that function's generic error and no other.
C5_TransportFailureIsGenericError ==
    (response = Failed /\ fn \in {FnVideo, FnParse, FnTitle, FnConvert})
    => /\ pc = "thrown"
       /\ result = NoValue
       /\ fn = FnVideo => error = "Failed to get video length and subtitles"
       /\ fn = FnParse => error = "Failed to parse XML content"
       /\ fn = FnTitle => error = "Failed to generate title and description"
       /\ fn = FnConvert => error = "Failed to convert text to objects"

C5_Witness ==
    /\ fn = FnConvert
    /\ response = Failed
    /\ pc = "thrown"
    /\ error = "Failed to convert text to objects"

\* C6: when the completion arrives but its first choice carries no parsed
\* payload (absent or null), CreateTitleAndDescription and ConvertToObjects
\* throw their generic error and return nothing.
C6_NoParsedPayloadIsGenericError ==
    ( /\ fn \in {FnTitle, FnConvert}
      /\ Done
      /\ response.kind = "ok"
      /\ response.choices # <<>>
      /\ ~ HasParsed )
    => /\ pc = "thrown"
       /\ result = NoValue
       /\ fn = FnTitle => error = "Failed to generate title and description"
       /\ fn = FnConvert => error = "Failed to convert text to objects"

C6_Witness ==
    /\ fn = FnTitle
    /\ pc = "thrown"
    /\ response.kind = "ok"
    /\ response.choices # <<>>
    /\ response.choices[1].message # Undefined
    /\ response.choices[1].message.parsed = Null
    /\ error = "Failed to generate title and description"

\* C7: the generators return the parsed payload unmodified.
\* CreateTitleAndDescription returns exactly the parsed object;
\* ConvertToObjects puts the slide count K into its prompt unchanged (10 when
\* K is omitted) and returns the entries of arrayOfObjects unchanged and in
\* order.
C7_ParsedPayloadUnmodified ==
    /\ (fn = FnTitle /\ Done /\ HasParsed)
        => /\ pc = "returned"
           /\ result = response.choices[1].message.parsed
    /\ (fn = FnTitle /\ issued = 1) => request.prompt[2] = args.transcript
    /\ (fn = FnConvert /\ issued = 1)
        => /\ request.prompt[2] =
                (IF args.slideCount = Undefined THEN "10"
                 ELSE ToString(args.slideCount.n))
           /\ request.prompt[4] = args.text
    /\ (fn = FnConvert /\ Done /\ HasParsed)
        => /\ pc = "returned"
           /\ result = response.choices[1].message.parsed.arrayOfObjects

C7_Witness ==
    /\ fn = FnConvert
    /\ pc = "returned"
    /\ args.slideCount = Num(2)
    /\ request.prompt[2] = "2"
    /\ Len(result.a) = 2
    /\ result.a[1].title = Str("S2")
    /\ result.a[2].title = Str("S1")
    /\ result.a[1].content.a = <<Str("b1"), Str("b2")>>

\* C8: in every result of GetVideoLengthAndSubtitles each field is a value or
\* null, never undefined: length is null when the response has no
\* lengthSeconds, subtitlesURL is null when there is no English entry or the
\* entry has no url.
C8_FieldsNeverUndefined ==
    (fn = FnVideo /\ pc = "returned")
    => /\ result.length # Undefined
       /\ result.subtitlesURL # Undefined
       /\ response.data.lengthSeconds = Undefined => result.length = Null
       /\ OptionalUrl(FindEnglish(response.data.subtitles.a)) = Undefined
            => result.subtitlesURL = Null

\* C9: every failure raised during a call of
\* CreatePowerpointFromArrayOfObjects, while building the slides or while
\* writing the file, reaches the caller as its generic error.
C9_EveryFailureIsGenericError ==
    (fn = FnPowerpoint /\ pc = "thrown")
    => error = "Failed to create Powerpoint presentation"

\* C10: no retries and no local recovery.  An invocation issues its external
\* operation at most once; once that operation has failed the invocation
\* issues nothing more and has ended in an error, never in a returned value.
C10_NoRetryNoRecovery ==
    /\ [](issued <= 1)
    /\ [](response = Failed => pc = "thrown" /\ result = NoValue /\ error # NoError)
    /\ [][response = Failed => (pc' = "idle" /\ issued' = 0)]_vars

C10_Witness ==
    /\ fn = FnPowerpoint
    /\ response = Failed
    /\ issued = 1
    /\ pc = "thrown"

====
